---- MODULE Spec2Model ----
(***************************************************************************)
(* Model of the shopping assistant's price pipeline (backend.py) and of    *)
(* its two entry points (main.py, app.py).                                 *)
(*                                                                         *)
(* A Python str is a sequence of one-character strings.  The three         *)
(* non-ASCII currency signs are the characters RUPEE, EURO and POUND.      *)
(* A Python float that holds a price is an exact decimal [m, e] standing   *)
(* for m / 10^e, kept normalised (no trailing zero in the fraction), so    *)
(* float("1.50") and float("1.5") are the same value.                      *)
(***************************************************************************)
EXTENDS Integers, Sequences, FiniteSets

VARIABLES
    price_str,    \* argument of _detect_currency/_extract_first_number/convert_to_inr
    rates,        \* [usd_inr, eur_inr, gbp_inr]: the rates the caller holds
    called,       \* the currency functions called so far on price_str
    cur,          \* what _detect_currency returned, "" before the call
    val,          \* what _extract_first_number returned, None before the call
    converted,    \* what convert_to_inr returned, "" before the call
    prices_json,  \* the value search_prices_serper returned (or a provider body)
    top_n,        \* the caller's top_n
    rows,         \* result of make_price_rows
    summary,      \* result of summarize_prices_for_prompt
    pc,           \* position of the entry point's run
    entry,        \* "main" (main.py) or "app" (app.py)
    exc,          \* the exception in flight or handled, "none" when there is none
    search_calls, \* number of requests.post calls of the run
    resp_status,  \* status of the search collaborator's response
    research,     \* result of research_product
    report,       \* result of build_final_report
    shown         \* what the run showed the user last

vars == <<price_str, rates, called, cur, val, converted, prices_json, top_n, rows, summary,
          pc, entry, exc, search_calls, resp_status, research, report, shown>>

-----------------------------------------------------------------------------
(* Bounds *)

\* longest generated price string
MaxLen == 4
\* longest provider quote sequence handed to the row builder
MaxQuotes == 2
\* largest top_n handed to the row builder
MaxTopN == 3

-----------------------------------------------------------------------------
(* Characters and strings *)

RUPEE == "RUPEE_SIGN"
EURO == "EURO_SIGN"
POUND == "POUND_SIGN"

Digits == {"0", "1", "2", "3", "4", "5", "6", "7", "8", "9"}

IsDigit(c) == c \in Digits

DigitVal(c) ==
    CASE c = "0" -> 0 [] c = "1" -> 1 [] c = "2" -> 2 [] c = "3" -> 3
      [] c = "4" -> 4 [] c = "5" -> 5 [] c = "6" -> 6 [] c = "7" -> 7
      [] c = "8" -> 8 [] c = "9" -> 9

DigitChar(d) == <<"0", "1", "2", "3", "4", "5", "6", "7", "8", "9">>[d + 1]

\* `sub in s` of Python
Contains(sub, s) ==
    \E i \in 1..(Len(s) - Len(sub) + 1) : SubSeq(s, i, i + Len(sub) - 1) = sub

\* s.replace(",", "")
StripCommas(s) == SelectSeq(s, LAMBDA c : c # ",")

\* number of consecutive digits of s from position i on
RECURSIVE DigitRun(_, _)
DigitRun(s, i) ==
    IF i <= Len(s) /\ IsDigit(s[i]) THEN 1 + DigitRun(s, i + 1) ELSE 0

\* value of a sequence of digit characters
RECURSIVE DigitsValue(_)
DigitsValue(ds) ==
    IF ds = <<>> THEN 0
    ELSE 10 * DigitsValue(SubSeq(ds, 1, Len(ds) - 1)) + DigitVal(ds[Len(ds)])

RECURSIVE Pow10(_)
Pow10(n) == IF n = 0 THEN 1 ELSE 10 * Pow10(n - 1)

\* decimal digits of a natural number, no leading zero
RECURSIVE IntStr(_)
IntStr(n) ==
    IF n < 10 THEN <<DigitChar(n)>> ELSE IntStr(n \div 10) \o <<DigitChar(n % 10)>>

\* the w low decimal digits of n, zero padded
RECURSIVE PadStr(_, _)
PadStr(n, w) ==
    IF w = 0 THEN <<>> ELSE PadStr(n \div 10, w - 1) \o <<DigitChar(n % 10)>>

-----------------------------------------------------------------------------
(* float values *)

RECURSIVE Norm(_, _)
Norm(m, e) ==
    IF e > 0 /\ m % 10 = 0 THEN Norm(m \div 10, e - 1)
    ELSE [none |-> FALSE, m |-> m, e |-> e]

None == [none |-> TRUE, m |-> 0, e |-> 0]

\* float(text) of a match of digit+ ('.' digit+)?
ParseFloat(text) ==
    LET n == DigitRun(text, 1)
        frac == IF n < Len(text) THEN SubSeq(text, n + 2, Len(text)) ELSE <<>>
    IN  Norm(DigitsValue(SubSeq(text, 1, n)) * Pow10(Len(frac)) + DigitsValue(frac),
             Len(frac))

\* val * rate
Mul(a, b) == Norm(a.m * b.m, a.e + b.e)

\* round(x, 2): to the nearest hundredth; an exact decimal tie goes to the even
\* hundredth (on a float the binary value of the product decides a tie)
Round2(x) ==
    IF x.e <= 2 THEN x
    ELSE LET p == Pow10(x.e - 2)
             q == x.m \div p
             r == x.m % p
             up == 2 * r > p \/ (2 * r = p /\ q % 2 = 1)
         IN  Norm(IF up THEN q + 1 ELSE q, 2)

\* str(x) of a float with at most two decimals: always a fraction part, "4150.0"
FloatStr(x) ==
    IntStr(x.m \div Pow10(x.e)) \o <<".">> \o
        (IF x.e = 0 THEN <<"0">> ELSE PadStr(x.m % Pow10(x.e), x.e))

\* f"₹{round(x, 2)}"
FormatINR(x) == <<RUPEE>> \o FloatStr(Round2(x))

-----------------------------------------------------------------------------
(* Currency parsing and INR conversion (backend.py) *)

\* the literal "N/A"
NA == <<"N", "/", "A">>

\* dict literal; a dict iterates in insertion order
_CURRENCY_MAP ==
    << [sym |-> <<"$">>,           cur |-> "USD"],
       [sym |-> <<"U", "S", "$">>, cur |-> "USD"],
       [sym |-> <<"U", "S", "D">>, cur |-> "USD"],
       [sym |-> <<EURO>>,          cur |-> "EUR"],
       [sym |-> <<"E", "U", "R">>, cur |-> "EUR"],
       [sym |-> <<POUND>>,         cur |-> "GBP"],
       [sym |-> <<"G", "B", "P">>, cur |-> "GBP"],
       [sym |-> <<RUPEE>>,         cur |-> "INR"],
       [sym |-> <<"I", "N", "R">>, cur |-> "INR"] >>

\* the loop of _detect_currency over a table in the given order
DetectIn(table, s) ==
    IF s = <<>> THEN "USD"
    ELSE LET hits == {i \in 1..Len(table) : Contains(table[i].sym, s)}
         IN  IF hits = {} THEN "USD"
             ELSE table[CHOOSE i \in hits : \A j \in hits : i <= j].cur

_detect_currency(s) == DetectIn(_CURRENCY_MAP, s)

\* end (exclusive) of the greedy (?:,\d{3})* from position j
RECURSIVE CommaGroups(_, _)
CommaGroups(t, j) ==
    IF j <= Len(t) /\ t[j] = "," /\ DigitRun(t, j + 1) >= 3
    THEN CommaGroups(t, j + 4) ELSE j

\* end (exclusive) of the optional (?:\.\d+) from position j
FracEnd(t, j) ==
    IF j <= Len(t) /\ t[j] = "." /\ DigitRun(t, j + 1) >= 1
    THEN j + 1 + DigitRun(t, j + 1) ELSE j

\* re.search(r"(\d{1,3}(?:,\d{3})*(?:\.\d+)?)", t): the matched text, <<>> if none
RegexSearch(t) ==
    LET starts == {i \in 1..Len(t) : IsDigit(t[i])}
    IN  IF starts = {} THEN <<>>
        ELSE LET i == CHOOSE a \in starts : \A b \in starts : a <= b
                 n == IF DigitRun(t, i) < 3 THEN DigitRun(t, i) ELSE 3
                 j == FracEnd(t, CommaGroups(t, i + n))
             IN  SubSeq(t, i, j - 1)

_extract_first_number(s) ==
    IF s = <<>> THEN None
    ELSE LET match == RegexSearch(StripCommas(s))
         IN  IF match = <<>> THEN None
             ELSE IF Contains(<<",">>, match) THEN None   \* float() raises: except
             ELSE ParseFloat(match)

DEFAULT_USD_INR == Norm(83, 0)
DEFAULT_EUR_INR == Norm(90, 0)
DEFAULT_GBP_INR == Norm(105, 0)

\* convert_to_inr with the INR branch also scaled by the USD rate
convert_to_inr_scaling_inr(s, usd_inr, eur_inr, gbp_inr) ==
    IF s = <<>> THEN NA
    ELSE LET c == _detect_currency(s)
             v == _extract_first_number(s)
         IN  IF v.none THEN s
             ELSE CASE c = "INR" -> FormatINR(Mul(v, usd_inr))
                    [] c = "USD" -> FormatINR(Mul(v, usd_inr))
                    [] c = "EUR" -> FormatINR(Mul(v, eur_inr))
                    [] c = "GBP" -> FormatINR(Mul(v, gbp_inr))
                    [] OTHER -> s

\* convert_to_inr without the `if not price_str` guard
convert_to_inr_no_empty_guard(s, usd_inr, eur_inr, gbp_inr) ==
    LET c == _detect_currency(s)
        v == _extract_first_number(s)
    IN  IF v.none THEN s
        ELSE CASE c = "INR" -> FormatINR(v)
               [] c = "USD" -> FormatINR(Mul(v, usd_inr))
               [] c = "EUR" -> FormatINR(Mul(v, eur_inr))
               [] c = "GBP" -> FormatINR(Mul(v, gbp_inr))
               [] OTHER -> s

convert_to_inr(s, usd_inr, eur_inr, gbp_inr) ==
    IF s = <<>> THEN NA
    ELSE LET c == _detect_currency(s)
             v == _extract_first_number(s)
         IN  IF v.none THEN s
             ELSE CASE c = "INR" -> FormatINR(v)
                    [] c = "USD" -> FormatINR(Mul(v, usd_inr))
                    [] c = "EUR" -> FormatINR(Mul(v, eur_inr))
                    [] c = "GBP" -> FormatINR(Mul(v, gbp_inr))
                    [] OTHER -> s

-----------------------------------------------------------------------------
(* Price strings and rates the checks draw from *)

\* "$1,234.50"
EX_THOUSANDS == <<"$", "1", ",", "2", "3", "4", ".", "5", "0">>
\* rupee sign, "1999"
EX_RUPEE == <<RUPEE, "1", "9", "9", "9">>
\* "$89.99"
EX_DOLLAR == <<"$", "8", "9", ".", "9", "9">>
\* "XYZ 50"
EX_XYZ == <<"X", "Y", "Z", " ", "5", "0">>
\* "no digits here"
EX_NO_DIGITS == <<"n", "o", " ", "d", "i", "g", "i", "t", "s", " ", "h", "e", "r", "e">>
\* "$89.99 - $129.99"
EX_RANGE ==
    <<"$", "8", "9", ".", "9", "9", " ", "-", " ", "$", "1", "2", "9", ".", "9", "9">>
\* "from $89.99"
EX_FROM == <<"f", "r", "o", "m", " ", "$", "8", "9", ".", "9", "9">>
\* "USD 100"
EX_USD_WORD == <<"U", "S", "D", " ", "1", "0", "0">>
\* "US$ 5"
EX_US_DOLLAR == <<"U", "S", "$", " ", "5">>
\* "INR 500 ($6)"
EX_INR_WITH_DOLLAR == <<"I", "N", "R", " ", "5", "0", "0", " ", "(", "$", "6", ")">>
\* "EUR 5 ($6)"
EX_EUR_WITH_DOLLAR == <<"E", "U", "R", " ", "5", " ", "(", "$", "6", ")">>
\* "GBP 2 ($3)"
EX_GBP_WITH_DOLLAR == <<"G", "B", "P", " ", "2", " ", "(", "$", "3", ")">>
\* euro sign, "3.5"
EX_EURO == <<EURO, "3", ".", "5">>
\* pound sign, "7"
EX_POUND == <<POUND, "7">>

Examples ==
    {EX_THOUSANDS, EX_RUPEE, EX_DOLLAR, EX_XYZ, EX_NO_DIGITS, EX_RANGE, EX_FROM,
     EX_USD_WORD, EX_US_DOLLAR, EX_INR_WITH_DOLLAR, EX_EUR_WITH_DOLLAR,
     EX_GBP_WITH_DOLLAR, EX_EURO, EX_POUND, NA}

Alphabet == {"$", RUPEE, "0", "1", ".", ",", "X"}

\* every string over Alphabet of at most MaxLen characters, and the examples
PriceStrings ==
    Examples \cup UNION {[1..n -> Alphabet] : n \in 0..MaxLen}

\* the default rates of convert_to_inr, and a table that differs in every rate
DefaultRates ==
    [usd_inr |-> DEFAULT_USD_INR, eur_inr |-> DEFAULT_EUR_INR, gbp_inr |-> DEFAULT_GBP_INR]

OtherRates ==
    [usd_inr |-> Norm(84, 0), eur_inr |-> Norm(91, 0), gbp_inr |-> Norm(106, 0)]

RateTables == {DefaultRates, OtherRates}

-----------------------------------------------------------------------------
(* SpecConv: the three currency functions called on a price string *)

NoJson == [has_shopping |-> FALSE, shopping |-> <<>>, has_error |-> FALSE]

InitConv ==
    /\ price_str \in PriceStrings
    /\ rates \in RateTables
    /\ called = {}
    /\ cur = ""
    /\ val = None
    /\ converted = <<>>
    /\ prices_json = NoJson
    /\ top_n = 0
    /\ rows = <<>>
    /\ summary = <<>>
    /\ pc = "idle"
    /\ entry = "none"
    /\ exc = "none"
    /\ search_calls = 0
    /\ resp_status = "none"
    /\ research = "none"
    /\ report = "none"
    /\ shown = "none"

CallDetect ==
    /\ called' = called \cup {"_detect_currency"}
    /\ cur' = _detect_currency(price_str)
    /\ UNCHANGED <<val, converted, price_str, rates, prices_json, top_n, rows, summary, pc, entry,
                   exc, search_calls, resp_status, research, report, shown>>

CallExtract ==
    /\ called' = called \cup {"_extract_first_number"}
    /\ val' = _extract_first_number(price_str)
    /\ UNCHANGED <<cur, converted, price_str, rates, prices_json, top_n, rows, summary, pc, entry,
                   exc, search_calls, resp_status, research, report, shown>>

CallConvert ==
    /\ called' = called \cup {"convert_to_inr"}
    /\ converted' =
           convert_to_inr(price_str, rates.usd_inr, rates.eur_inr, rates.gbp_inr)
    /\ UNCHANGED <<cur, val, price_str, rates, prices_json, top_n, rows, summary, pc, entry,
                   exc, search_calls, resp_status, research, report, shown>>

NextConv == CallDetect \/ CallExtract \/ CallConvert

SpecConv == InitConv /\ [][NextConv]_vars

-----------------------------------------------------------------------------
(* Properties of the currency functions, under SpecConv *)

HasDigit(s) == \E i \in 1..Len(s) : IsDigit(s[i])

\* the tokens of the currency table that occur in s
TokensIn(s) == {i \in 1..Len(_CURRENCY_MAP) : Contains(_CURRENCY_MAP[i].sym, s)}

\* the codes of the longest tokens that occur in s
LongestCodes(s) ==
    {_CURRENCY_MAP[i].cur : i \in {a \in TokensIn(s) : \A b \in TokensIn(s) :
                                      Len(_CURRENCY_MAP[b].sym) <= Len(_CURRENCY_MAP[a].sym)}}

\* the table in the opposite iteration order
ReversedMap ==
    [i \in 1..Len(_CURRENCY_MAP) |-> _CURRENCY_MAP[Len(_CURRENCY_MAP) + 1 - i]]

\* the value of the first maximal run digit+ ('.' digit+)? of s without its commas
FirstMaximalRun(s) ==
    LET t == StripCommas(s)
    IN  IF ~HasDigit(t) THEN None
        ELSE LET i == CHOOSE a \in 1..Len(t) :
                        IsDigit(t[a]) /\ \A b \in 1..(a - 1) : ~IsDigit(t[b])
                 j == FracEnd(t, i + DigitRun(t, i))
             IN  ParseFloat(SubSeq(t, i, j - 1))

\* C1: _extract_first_number returns the value of the first maximal run
\* digit+ ('.' digit+)? of the string without its commas, whatever the number of
\* digits of the integer part, and absent when the string has no digit.
C1_ExtractFirstMaximalRun ==
    "_extract_first_number" \in called => val = FirstMaximalRun(price_str)

\* C2: a price string with a number and no token of the currency table is
\* returned unchanged by convert_to_inr, whatever the rates.
C2_UnknownCurrencyPassThrough ==
    ("convert_to_inr" \in called /\ HasDigit(price_str) /\ TokensIn(price_str) = {})
        => converted = price_str

\* C3: for a price string that contains a token of the currency table,
\* _detect_currency returns the code of the longest token in it, and where that
\* code is unique the opposite iteration order of the table gives the same code.
C3_DetectLongestToken ==
    ("_detect_currency" \in called /\ TokensIn(price_str) # {})
        => /\ cur \in LongestCodes(price_str)
           /\ Cardinality(LongestCodes(price_str)) = 1
                 => DetectIn(ReversedMap, price_str) = cur

C5_ConvertTotal ==
    "convert_to_inr" \in called
        => /\ converted # <<>>
           /\ price_str = <<>> => converted = NA
           /\ (price_str # <<>> /\ ~HasDigit(price_str)) => converted = price_str

\* convert("") is "N/A"
C5_Witness ==
    "convert_to_inr" \in called /\ price_str = <<>> /\ converted = NA

-----------------------------------------------------------------------------
(* Rows and summary of the search results (backend.py) *)

\* a field of a provider item: key absent, JSON null, or a string
Absent == [kind |-> "absent", s |-> <<>>]
Null == [kind |-> "null", s |-> <<>>]
Str(s) == [kind |-> "str", s |-> s]

\* item.get(key) or "N/A"
OrNA(f) == IF f.kind = "str" /\ f.s # <<>> THEN f.s ELSE NA

\* prices_json.get("shopping", [])[:top_n]
Items(pj, n) ==
    LET lst == IF pj.has_shopping THEN pj.shopping ELSE <<>>
        k == IF n >= 0 THEN (IF n < Len(lst) THEN n ELSE Len(lst))
             ELSE (IF Len(lst) + n > 0 THEN Len(lst) + n ELSE 0)
    IN  SubSeq(lst, 1, k)

\* "\n".join(lines)
RECURSIVE JoinLines(_)
JoinLines(lines) ==
    IF lines = <<>> THEN <<>>
    ELSE IF Len(lines) = 1 THEN lines[1]
    ELSE lines[1] \o <<"\n">> \o JoinLines(Tail(lines))

\* make_price_rows without the [:top_n] slice
make_price_rows_unsliced(pj, n, usd_inr) ==
    LET items == IF pj.has_shopping THEN pj.shopping ELSE <<>>
    IN  [i \in 1..Len(items) |->
            [Title |-> OrNA(items[i].title),
             PriceOriginal |-> OrNA(items[i].price),
             PriceINR |-> convert_to_inr(OrNA(items[i].price), usd_inr,
                                         DEFAULT_EUR_INR, DEFAULT_GBP_INR),
             Link |-> OrNA(items[i].link)]]

\* convert_to_inr(price, usd_inr=usd_inr): eur_inr and gbp_inr keep their defaults
make_price_rows(pj, n, usd_inr) ==
    LET items == Items(pj, n)
    IN  [i \in 1..Len(items) |->
            [Title |-> OrNA(items[i].title),
             PriceOriginal |-> OrNA(items[i].price),
             PriceINR |-> convert_to_inr(OrNA(items[i].price), usd_inr,
                                         DEFAULT_EUR_INR, DEFAULT_GBP_INR),
             Link |-> OrNA(items[i].link)]]

\* f"- {title} | {price_inr} (orig: {price}) | {link}"
SummaryLine(title, price_inr, price, link) ==
    <<"-", " ">> \o title \o <<" ", "|", " ">> \o price_inr
        \o <<" ", "(", "o", "r", "i", "g", ":", " ">> \o price
        \o <<")", " ", "|", " ">> \o link

\* summarize_prices_for_prompt that leaves out the items with no price
summarize_prices_skipping_unpriced(pj, n, usd_inr) ==
    LET items == SelectSeq(Items(pj, n), LAMBDA it : OrNA(it.price) # NA)
    IN  JoinLines([i \in 1..Len(items) |->
            SummaryLine(OrNA(items[i].title),
                        convert_to_inr(OrNA(items[i].price), usd_inr,
                                       DEFAULT_EUR_INR, DEFAULT_GBP_INR),
                        OrNA(items[i].price),
                        OrNA(items[i].link))])

summarize_prices_for_prompt(pj, n, usd_inr) ==
    LET items == Items(pj, n)
    IN  JoinLines([i \in 1..Len(items) |->
            SummaryLine(OrNA(items[i].title),
                        convert_to_inr(OrNA(items[i].price), usd_inr,
                                       DEFAULT_EUR_INR, DEFAULT_GBP_INR),
                        OrNA(items[i].price),
                        OrNA(items[i].link))])

\* the line main() prints for a row:
\* f"- {r['Title']} | {r['Price (INR)']} (orig: {r['Price (Original)']}) | {r['Link']}"
RowLine(r) ==
    <<"-", " ">> \o r.Title \o <<" ", "|", " ">> \o r.PriceINR
        \o <<" ", "(", "o", "r", "i", "g", ":", " ">> \o r.PriceOriginal
        \o <<")", " ", "|", " ">> \o r.Link

-----------------------------------------------------------------------------
(* SpecRows: the two result builders called on a provider response *)

TitleFields == {Absent, Str(<<"A">>)}
PriceFields ==
    {Absent, Str(<<>>), Str(<<"$", "5">>), Str(<<"E", "U", "R", " ", "5">>),
     Str(<<"G", "B", "P", " ", "2">>)}
LinkFields == {Null, Str(<<"L">>)}

Quotes == [title : TitleFields, price : PriceFields, link : LinkFields]

\* provider bodies: with no `shopping` field, or with up to MaxQuotes items
Responses ==
    {NoJson} \cup
    {[has_shopping |-> TRUE, shopping |-> q, has_error |-> FALSE] :
        q \in UNION {[1..n -> Quotes] : n \in 0..MaxQuotes}}

InitRows ==
    /\ prices_json \in Responses
    /\ top_n \in 1..MaxTopN
    /\ rates \in RateTables
    /\ called = {}
    /\ rows = <<>>
    /\ summary = <<>>
    /\ price_str = <<>>
    /\ cur = ""
    /\ val = None
    /\ converted = <<>>
    /\ pc = "idle"
    /\ entry = "none"
    /\ exc = "none"
    /\ search_calls = 0
    /\ resp_status = "none"
    /\ research = "none"
    /\ report = "none"
    /\ shown = "none"

CallMakePriceRows ==
    /\ called' = called \cup {"make_price_rows"}
    /\ rows' = make_price_rows(prices_json, top_n, rates.usd_inr)
    /\ UNCHANGED <<price_str, rates, cur, val, converted, prices_json, top_n, summary,
                   pc, entry, exc, search_calls, resp_status, research, report, shown>>

CallSummarize ==
    /\ called' = called \cup {"summarize_prices_for_prompt"}
    /\ summary' = summarize_prices_for_prompt(prices_json, top_n, rates.usd_inr)
    /\ UNCHANGED <<price_str, rates, cur, val, converted, prices_json, top_n, rows,
                   pc, entry, exc, search_calls, resp_status, research, report, shown>>

NextRows == CallMakePriceRows \/ CallSummarize

SpecRows == InitRows /\ [][NextRows]_vars

-----------------------------------------------------------------------------
(* Properties of the result builders, under SpecRows *)

\* the provider's quote sequence, empty when the response has no `shopping` field
QuotesOf(pj) == IF pj.has_shopping THEN pj.shopping ELSE <<>>

\* C6: make_price_rows returns min(top_n, len(quotes)) rows, row i built from
\* quote i: title, original price and link are the quote's fields with "N/A"
\* for an absent, null or empty one, and the converted price is convert_to_inr
\* of that price-or-"N/A" value.
C6_RowsArePrefixInOrder ==
    "make_price_rows" \in called
        => LET q == QuotesOf(prices_json)
           IN  /\ Len(rows) = (IF top_n < Len(q) THEN top_n ELSE Len(q))
               /\ \A i \in 1..Len(rows) :
                    /\ rows[i].Title = OrNA(q[i].title)
                    /\ rows[i].PriceOriginal = OrNA(q[i].price)
                    /\ rows[i].Link = OrNA(q[i].link)
                    /\ rows[i].PriceINR =
                          convert_to_inr(rows[i].PriceOriginal, rates.usd_inr,
                                         DEFAULT_EUR_INR, DEFAULT_GBP_INR)

\* two equal quotes with no title and no link, top_n = 1: one row, "N/A" filled in
C6_Witness ==
    /\ "make_price_rows" \in called
    /\ top_n = 1
    /\ Len(QuotesOf(prices_json)) = 2
    /\ prices_json.shopping[1] = prices_json.shopping[2]
    /\ prices_json.shopping[1].title = Absent
    /\ prices_json.shopping[1].link = Null
    /\ Len(rows) = 1
    /\ rows[1].Title = NA

\* C7: the summary is the rows of make_price_rows for the same arguments, each
\* rendered as "- {title} | {converted} (orig: {original}) | {link}", joined by
\* newline in the same order; it is empty for an empty quote sequence.
C7_SummaryIsRenderedRows ==
    {"make_price_rows", "summarize_prices_for_prompt"} \subseteq called
        => /\ summary = JoinLines([i \in 1..Len(rows) |-> RowLine(rows[i])])
           /\ QuotesOf(prices_json) = <<>> => summary = <<>>

\* a summary of two lines for two rows, the first of a quote with no price
C7_Witness ==
    /\ {"make_price_rows", "summarize_prices_for_prompt"} \subseteq called
    /\ Len(rows) = 2
    /\ rows[1].PriceOriginal = NA
    /\ Cardinality({i \in 1..Len(summary) : summary[i] = "\n"}) = 1

\* C8: every row's converted price is convert_to_inr of its price at the rates
\* the caller holds for USD, EUR and GBP.
C8_RowsUseCallerRates ==
    "make_price_rows" \in called
        => \A i \in 1..Len(rows) :
              rows[i].PriceINR =
                  convert_to_inr(rows[i].PriceOriginal, rates.usd_inr,
                                 rates.eur_inr, rates.gbp_inr)

-----------------------------------------------------------------------------
(* The search call (backend.py) and the two entry points (main.py, app.py) *)

HTTP_OK == 200

\* the items of the provider bodies of a run: a complete USD quote, a EUR quote
\* with no title and a null link, and a quote with no price
PipeQuotes ==
    {[title |-> Str(<<"A">>), price |-> Str(<<"$", "5">>), link |-> Str(<<"L">>)],
     [title |-> Absent, price |-> Str(<<"E", "U", "R", " ", "5">>), link |-> Null],
     [title |-> Str(<<"A">>), price |-> Absent, link |-> Str(<<"L">>)]}

\* the bodies of a 200 response: no `shopping` field, or up to MaxQuotes items
PipeResponses ==
    {NoJson} \cup
    {[has_shopping |-> TRUE, shopping |-> q, has_error |-> FALSE] :
        q \in UNION {[1..n -> PipeQuotes] : n \in 0..MaxQuotes}}

\* what requests.post can do: raise (no connection), or return a response with
\* a status code and a body; a 200 body may fail to parse as JSON
SearchOutcomes ==
    {[kind |-> "raise", status_code |-> 0, valid_json |-> FALSE, json |-> NoJson]}
    \cup {[kind |-> "response", status_code |-> c, valid_json |-> v, json |-> NoJson] :
            c \in {403, 500}, v \in BOOLEAN}
    \cup {[kind |-> "response", status_code |-> HTTP_OK, valid_json |-> FALSE,
            json |-> NoJson]}
    \cup {[kind |-> "response", status_code |-> HTTP_OK, valid_json |-> TRUE,
            json |-> b] : b \in PipeResponses}

\* the value search_prices_serper returns for a non-200 response
ErrorJson == [has_shopping |-> TRUE, shopping |-> <<>>, has_error |-> TRUE]

\* search_prices_serper with resp.raise_for_status() in place of the status test
search_prices_serper_raising(outcome) ==
    IF outcome.kind = "raise" \/ outcome.status_code # HTTP_OK THEN
        [raised |-> TRUE, value |-> NoJson]
    ELSE IF ~outcome.valid_json THEN [raised |-> TRUE, value |-> NoJson]
    ELSE [raised |-> FALSE, value |-> outcome.json]

\* raised: requests.post or resp.json() raised, and nothing here catches it;
\* value: the returned dict
search_prices_serper(outcome) ==
    IF outcome.kind = "raise" THEN [raised |-> TRUE, value |-> NoJson]
    ELSE IF outcome.status_code # HTTP_OK THEN [raised |-> FALSE, value |-> ErrorJson]
    ELSE IF ~outcome.valid_json THEN [raised |-> TRUE, value |-> NoJson]
    ELSE [raised |-> FALSE, value |-> outcome.json]

MAIN_TOP_N == 8
APP_TOP_N_MIN == 3
APP_TOP_N_DEFAULT == 8
APP_TOP_N_MAX == 20

\* main(): usd_inr = 83.0
MainRates == DefaultRates

\* the app's "USD->INR rate" input: its minimum, its default and its maximum
AppRates ==
    {[usd_inr |-> u, eur_inr |-> DEFAULT_EUR_INR, gbp_inr |-> DEFAULT_GBP_INR] :
        u \in {Norm(50, 0), Norm(83, 0), Norm(200, 0)}}

InitPipe ==
    /\ entry \in {"main", "app"}
    /\ \/ entry = "main" /\ top_n = MAIN_TOP_N /\ rates = MainRates
       \/ /\ entry = "app"
          /\ top_n \in {APP_TOP_N_MIN, APP_TOP_N_DEFAULT, APP_TOP_N_MAX}
          /\ rates \in AppRates
    /\ pc = "start"
    /\ exc = "none"
    /\ search_calls = 0
    /\ resp_status = 0
    /\ research = "none"
    /\ report = "none"
    /\ shown = "none"
    /\ prices_json = NoJson
    /\ rows = <<>>
    /\ summary = <<>>
    /\ called = {}
    /\ price_str = <<>>
    /\ cur = ""
    /\ val = None
    /\ converted = <<>>

\* an exception leaves the run: main() has no handler, so the interpreter prints
\* the traceback and the process ends; the app's `except Exception` shows st.error
Propagate(what) ==
    /\ exc' = what
    /\ IF entry = "main"
       THEN pc' = "crashed" /\ shown' = "traceback"
       ELSE pc' = "error_shown" /\ shown' = "error"

\* app.py: `run` is false, the tip is shown
AppIdle ==
    /\ entry = "app" /\ pc = "start"
    /\ pc' = "done"
    /\ shown' = "tip"
    /\ UNCHANGED <<price_str, rates, called, cur, val, converted, prices_json, top_n,
                   rows, summary, entry, exc, search_calls, resp_status, research,
                   report>>

GetLlm ==
    /\ pc = "start"
    /\ pc' = "research"
    /\ UNCHANGED <<price_str, rates, called, cur, val, converted, prices_json, top_n,
                   rows, summary, entry, exc, search_calls, resp_status, research,
                   report, shown>>

\* research_product returns res.content; main() prints it
ResearchReturns ==
    /\ pc = "research"
    /\ research' = "text"
    /\ pc' = "search"
    /\ shown' = IF entry = "main" THEN "research" ELSE shown
    /\ UNCHANGED <<price_str, rates, called, cur, val, converted, prices_json, top_n,
                   rows, summary, entry, exc, search_calls, resp_status, report>>

\* llm.invoke raises inside research_product, which has no handler
ResearchRaises ==
    /\ pc = "research"
    /\ Propagate("research")
    /\ UNCHANGED <<price_str, rates, called, cur, val, converted, prices_json, top_n,
                   rows, summary, entry, search_calls, resp_status, research, report>>

Search ==
    /\ pc = "search"
    /\ \E outcome \in SearchOutcomes :
          LET r == search_prices_serper(outcome)
          IN  /\ search_calls' = search_calls + 1
              /\ resp_status' = outcome.status_code
              /\ IF r.raised
                 THEN Propagate("search") /\ UNCHANGED prices_json
                 ELSE /\ prices_json' = r.value
                      /\ pc' = "rows"
                      /\ UNCHANGED <<exc, shown>>
    /\ UNCHANGED <<price_str, rates, called, cur, val, converted, top_n, rows,
                   summary, entry, research, report>>

\* main() prints a line per row
MakeRows ==
    /\ pc = "rows"
    /\ rows' = make_price_rows(prices_json, top_n, rates.usd_inr)
    /\ pc' = "summarize"
    /\ shown' = IF entry = "main" THEN "rows" ELSE shown
    /\ UNCHANGED <<price_str, rates, called, cur, val, converted, prices_json, top_n,
                   summary, entry, exc, search_calls, resp_status, research, report>>

Summarize ==
    /\ pc = "summarize"
    /\ summary' = summarize_prices_for_prompt(prices_json, top_n, rates.usd_inr)
    /\ pc' = "report"
    /\ UNCHANGED <<price_str, rates, called, cur, val, converted, prices_json, top_n,
                   rows, entry, exc, search_calls, resp_status, research, report,
                   shown>>

\* build_final_report returns res.content; main() prints it and ends, the app
\* goes on to its display section
ReportReturns ==
    /\ pc = "report"
    /\ report' = "text"
    /\ IF entry = "main"
       THEN pc' = "done" /\ shown' = "report"
       ELSE pc' = "display" /\ UNCHANGED shown
    /\ UNCHANGED <<price_str, rates, called, cur, val, converted, prices_json, top_n,
                   rows, summary, entry, exc, search_calls, resp_status, research>>

\* llm.invoke raises inside build_final_report, which has no handler
ReportRaises ==
    /\ pc = "report"
    /\ Propagate("report")
    /\ UNCHANGED <<price_str, rates, called, cur, val, converted, prices_json, top_n,
                   rows, summary, entry, search_calls, resp_status, research, report>>

\* app.py: research, price cards (or "No shopping results found.") and report
Display ==
    /\ pc = "display"
    /\ pc' = "done"
    /\ shown' = "report"
    /\ UNCHANGED <<price_str, rates, called, cur, val, converted, prices_json, top_n,
                   rows, summary, entry, exc, search_calls, resp_status, research,
                   report>>

NextPipe ==
    \/ AppIdle
    \/ GetLlm
    \/ ResearchReturns
    \/ ResearchRaises
    \/ Search
    \/ MakeRows
    \/ Summarize
    \/ ReportReturns
    \/ ReportRaises
    \/ Display

\* the search collaborator answered with a status other than 200
NonSuccess == resp_status \notin {0, HTTP_OK}

\* both entry points are sequential programs: a run that can take a step takes
\* it. Only the two steps between a failed search and the report step are
\* stated as fair, which is less than the sequential execution guarantees.
SpecPipe ==
    /\ InitPipe
    /\ [][NextPipe]_vars
    /\ WF_vars(NonSuccess /\ MakeRows)
    /\ WF_vars(NonSuccess /\ Summarize)

-----------------------------------------------------------------------------
(* Properties of the runs, under SpecPipe *)

\* build_final_report is being called, has returned, or has raised
ReportStepReached == pc = "report" \/ report # "none" \/ exc = "report"

\* C9: a non-success response of the search collaborator becomes a value with an
\* empty quote sequence and an error field, with no exception and one call of
\* the search; the table and the summary are then empty, and the run goes on to
\* the report step.
C9_SearchFailureDegrades ==
    /\ [](search_calls <= 1)
    /\ [](NonSuccess =>
            /\ exc # "search"
            /\ search_calls = 1
            /\ prices_json.has_shopping /\ prices_json.shopping = <<>>
            /\ prices_json.has_error
            /\ pc \in {"summarize", "report", "display", "done"} => rows = <<>>
            /\ pc \in {"report", "display", "done"} => summary = <<>>)
    /\ (NonSuccess ~> ReportStepReached)

\* after a 500 of the search: at the report step, with no row and no summary
C9_Witness ==
    /\ resp_status = 500
    /\ pc = "report"
    /\ prices_json.has_error
    /\ rows = <<>>
    /\ summary = <<>>

\* C10: a failure of the generative-text collaborator in research or report
\* reaches the entry point's handler, which shows a failure message; no run
\* ends with the process crashed by it.
C10_CollaboratorFailureCaught ==
    exc \in {"research", "report"} => (pc = "error_shown" /\ shown = "error")

====
